---- MODULE Spec2Model ----
(***************************************************************************)
(* Model of .github/actions/deployment-check/index.js: the GitHub action   *)
(* that polls a list of HTTPS endpoints with a bounded number of retries   *)
(* and a fixed delay, and reports the outcome through @actions/core.       *)
(*                                                                         *)
(* Strings the code parses (the action inputs) are sequences of            *)
(* one-character strings; messages the code builds from templates are      *)
(* tuples of their fixed and interpolated parts.                           *)
(***************************************************************************)
EXTENDS Integers, Sequences, FiniteSets, TLC

\* ------------------------------------------------------------------ bounds
\* longest list of endpoints given to the action
MaxTargets == 2
\* largest single digit offered as the max-retries / retry-delay input
MaxDigit == 2

\* ------------------------------------------------------- program constants
DefaultMaxRetries == 5
DefaultRetryDelay == 30
MsPerSecond == 1000
MinSuccessStatus == 200
SuccessStatusBound == 300

\* ------------------------------------------------------------ text helpers
DigitChars == <<"0", "1", "2", "3", "4", "5", "6", "7", "8", "9">>

IsDigit(c) == \E d \in 1..10 : DigitChars[d] = c

DigitValue(c) == (CHOOSE d \in 1..10 : DigitChars[d] = c) - 1

IsSpace(c) == c = " "

RECURSIVE TrimLeft(_)
TrimLeft(s) ==
  IF s # <<>> /\ IsSpace(Head(s)) THEN TrimLeft(Tail(s)) ELSE s

RECURSIVE TrimRight(_)
TrimRight(s) ==
  IF s # <<>> /\ IsSpace(s[Len(s)]) THEN TrimRight(SubSeq(s, 1, Len(s) - 1)) ELSE s

\* String.prototype.trim
Trim(s) == TrimRight(TrimLeft(s))

\* String.prototype.split(','): the pieces between the commas, at least one
RECURSIVE SplitFrom(_, _)
SplitFrom(s, cur) ==
  IF s = <<>> THEN <<cur>>
  ELSE IF Head(s) = "," THEN <<cur>> \o SplitFrom(Tail(s), <<>>)
  ELSE SplitFrom(Tail(s), Append(cur, Head(s)))

Split(s) == SplitFrom(s, <<>>)

\* Array.prototype.join(sep)
RECURSIVE Join(_, _)
Join(list, sep) ==
  IF list = <<>> THEN <<>>
  ELSE IF Len(list) = 1 THEN list[1]
  ELSE list[1] \o sep \o Join(Tail(list), sep)

\* the leading run of decimal digits of s, as a number
RECURSIVE DigitsValue(_, _)
DigitsValue(s, acc) ==
  IF s # <<>> /\ IsDigit(Head(s))
  THEN DigitsValue(Tail(s), 10 * acc + DigitValue(Head(s)))
  ELSE acc

\* parseInt(s): leading blanks skipped, an optional sign, then digits up to
\* the first other character; NaN when there is no digit
ParseInt(s) ==
  LET t == TrimLeft(s)
      neg == t # <<>> /\ Head(t) = "-"
      u == IF t # <<>> /\ Head(t) \in {"-", "+"} THEN Tail(t) ELSE t
  IN IF u = <<>> \/ ~IsDigit(Head(u))
     THEN [nan |-> TRUE, val |-> 0]
     ELSE [nan |-> FALSE,
           val |-> IF neg THEN 0 - DigitsValue(u, 0) ELSE DigitsValue(u, 0)]

\* `parseInt(x) || dflt`: NaN and 0 are falsy
OrDefault(n, dflt) == IF n.nan \/ n.val = 0 THEN dflt ELSE n.val


\* ------------------------------------------------------------------ inputs
\* endpoint identifiers as written in the `endpoints` input; the second one
\* carries the blank that follows a comma in "a, b"
Names == {<<"a">>, <<" ", "b">>}

TargetLists == UNION {[1..n -> Names] : n \in 0..MaxTargets}

EndpointInputs == {Join(l, <<",">>) : l \in TargetLists}

EnvironmentInputs == {<<>>, <<"p">>}

\* values of the max-retries input: absent, not a number, negative, a digit
MaxRetriesInputs ==
  {<<>>, <<"x">>, <<"-", "1">>} \cup {<<DigitChars[d + 1]>> : d \in 0..MaxDigit}

\* values of the retry-delay input: absent, zero, a number followed by text
RetryDelayInputs == {<<>>, <<"0">>, <<"2", "s">>}

\* status codes a response can carry
StatusCodes == {199, 200, 299, 300, 500}

\* messages of the errors the request can emit
NetworkErrors == {<<"connect ECONNREFUSED">>}

Bodies == {<<>>, <<"o", "k">>}

Timestamps == {<<"T1">>, <<"T2">>}

\* --------------------------------------------------------------- the state
VARIABLES
  inputs,      \* the action's inputs, as given: name -> text
  pc,          \* where run() is: "start", "awaitProbe", "awaitSleep", "done"
  endpoints,   \* run: const endpoints
  maxRetries,  \* run: const maxRetries
  retryDelay,  \* run: const retryDelay
  results,     \* run: const results
  idx,         \* position of the for-of loop in endpoints
  retries,     \* run: let retries
  success,     \* run: let success
  request,     \* checkEndpoint: the request of the current probe
  promise,     \* checkEndpoint: the promise of the current probe
  timer,       \* the retry delay's setTimeout
  outputs,     \* the core.setOutput calls made, in order
  failed,      \* the core.setFailed calls made, in order
  infoLog,     \* the core.info lines written, in order
  probes,      \* history: probes issued per target
  rejects,     \* history: probes that failed per target
  fulfills,    \* history: probes that succeeded per target
  sleeps,      \* history: retry delays started per target
  lastError,   \* history: the latest failed probe, its target and message
  sh           \* the shell script being run (deploy.sh, build-all.sh), if any

vars == <<inputs, pc, endpoints, maxRetries, retryDelay, results, idx, retries,
          success, request, promise, timer, outputs, failed, infoLog,
          probes, rejects, fulfills, sleeps, lastError, sh>>

NoRequest == [url |-> <<>>, state |-> "none", statusCode |-> 0, destroyed |-> FALSE]
NoPromise == [state |-> "none", value |-> [statusCode |-> 0, data |-> <<>>], reason |-> <<>>]
NoTimer == [armed |-> FALSE, ms |-> 0]
NoError == [target |-> 0, message |-> <<>>]
NoScript == [script |-> "none", fn |-> "none", k |-> 0, status |-> 0, args |-> <<>>,
             ci |-> "", entered |-> <<>>, cmds |-> <<>>, out |-> <<>>]

Init ==
  /\ inputs \in [environment : EnvironmentInputs, endpoints : EndpointInputs,
                 maxRetries : MaxRetriesInputs, retryDelay : RetryDelayInputs]
  /\ pc = "start"
  /\ endpoints = <<>>
  /\ maxRetries = 0
  /\ retryDelay = 0
  /\ results = <<>>
  /\ idx = 0
  /\ retries = 0
  /\ success = FALSE
  /\ request = NoRequest
  /\ promise = NoPromise
  /\ timer = NoTimer
  /\ outputs = <<>>
  /\ failed = <<>>
  /\ infoLog = <<>>
  /\ probes = <<>>
  /\ rejects = <<>>
  /\ fulfills = <<>>
  /\ sleeps = <<>>
  /\ lastError = NoError
  /\ sh = NoScript

\* ------------------------------------------------------------ @actions/core
\* core.getInput(name, {required}): the trimmed text, or a throw when a
\* required input is empty
GetInput(name, raw, required) ==
  LET val == Trim(raw)
  IN [threw |-> required /\ val = <<>>,
      val |-> val,
      message |-> <<"Input required and not supplied: ", name>>]

\* ------------------------------------------------------------ checkEndpoint
\* variant: `statusCode <= 300`
IsSuccessStatusInclusive(s) == s >= MinSuccessStatus /\ s <= SuccessStatusBound

IsSuccessStatus(s) == s >= MinSuccessStatus /\ s < SuccessStatusBound

HttpStatusMessage(s) == <<"HTTP Status: ", s>>

TimeoutMessage == <<"Request timed out">>

\* variant: a promise whose reject overwrites an earlier outcome
RejectAgain(p, msg) == [p EXCEPT !.state = "rejected", !.reason = msg]

\* resolve / reject of a promise: only a pending promise changes
Resolve(p, v) ==
  IF p.state = "pending" THEN [p EXCEPT !.state = "fulfilled", !.value = v] ELSE p

Reject(p, msg) ==
  IF p.state = "pending" THEN [p EXCEPT !.state = "rejected", !.reason = msg] ELSE p

\* variant: the request is left to itself, `request.destroy()` missing
Abandon(req) == req

\* request.destroy()
Destroy(req) == [req EXCEPT !.state = "destroyed", !.destroyed = TRUE]

\* the history of a probe whose promise p becomes q
Settled(p, q) ==
  /\ fulfills' = IF p.state = "pending" /\ q.state = "fulfilled"
                 THEN [fulfills EXCEPT ![idx] = @ + 1] ELSE fulfills
  /\ rejects' = IF p.state = "pending" /\ q.state = "rejected"
                THEN [rejects EXCEPT ![idx] = @ + 1] ELSE rejects
  /\ lastError' = IF p.state = "pending" /\ q.state = "rejected"
                  THEN [target |-> idx, message |-> q.reason] ELSE lastError

runVars == <<inputs, pc, endpoints, maxRetries, retryDelay, results, idx, retries,
             success, timer, outputs, failed, infoLog, probes, sleeps, sh>>

\* response.on('end')
ResponseEnd(s, body) ==
  /\ request.state = "open"
  /\ request' = [request EXCEPT !.state = "ended", !.statusCode = s]
  /\ promise' = IF IsSuccessStatus(s)
                THEN Resolve(promise, [statusCode |-> s, data |-> body])
                ELSE Reject(promise, HttpStatusMessage(s))
  /\ Settled(promise, promise')
  /\ UNCHANGED runVars

\* request.on('error')
RequestError(msg) ==
  /\ request.state \in {"open", "destroyed"}
  /\ request' = [request EXCEPT !.state = "errored"]
  /\ promise' = Reject(promise, msg)
  /\ Settled(promise, promise')
  /\ UNCHANGED runVars

\* request.on('timeout')
RequestTimeout ==
  /\ request.state = "open"
  /\ request' = Destroy(request)
  /\ promise' = Reject(promise, TimeoutMessage)
  /\ Settled(promise, promise')
  /\ UNCHANGED runVars

\* ---------------------------------------------------------------------- run
\* variant: `checkEndpoint(...)` called without `await`
NotAwaited(p) == TRUE

\* `await checkEndpoint(...)`: run() resumes once the promise is settled
Awaited(p) == p.state \in {"fulfilled", "rejected"}

\* variant: `while (retries < maxRetries)`
LoopCondNoSuccess(r, m, s) == r < m

\* `while (retries < maxRetries && !success)`
LoopCond(r, m, s) == r < m /\ ~s

\* variant: retries declared outside the for loop, never reset
InitialRetriesKept(r) == r

\* `let retries = 0` at the head of each iteration of the for loop; r is the
\* value the previous iteration left
InitialRetries(r) == 0

\* variant: the counter is not advanced
RetriesStuck(r) == r

\* `retries++`
NextRetries(r) == r + 1

\* variants: the exhaustion test never true at the budget / one attempt late
ExhaustedBeyond(r, m) == r > m

ExhaustedLate(r, m) == r = m + 1

\* `if (retries === maxRetries)` in the catch block
Exhausted(r, m) == r = m

\* variant: `attempts: retries`
AttemptsOfRaw(r) == r

\* `attempts: retries + 1`
AttemptsOf(r) == r + 1

HealthyReport(endpoint, r) ==
  [endpoint |-> endpoint, status |-> "healthy", attempts |-> AttemptsOf(r)]

\* variant: `error: error`, an Error object, which has no enumerable fields
UnhealthyReportObject(endpoint, msg) ==
  [endpoint |-> endpoint, status |-> "unhealthy", error |-> <<>>]

UnhealthyReport(endpoint, msg) ==
  [endpoint |-> endpoint, status |-> "unhealthy", error |-> msg]

\* variant: results.unshift(report)
Unshift(res, report) == <<report>> \o res

\* results.push(report)
Push(res, report) == Append(res, report)

\* `retryDelay * 1000`, the setTimeout delay
RetryDelayMs(d) == d * MsPerSecond

ExhaustedMessage(endpoint, m, msg) ==
  <<"Failed to verify endpoint ", endpoint, " after ", m, " attempts: ", msg>>

FailedMessage(msg) == <<"Deployment check failed: ", msg>>

\* JSON.stringify of one report and of the array of reports
StringifyReport(r) ==
  IF r.status = "healthy"
  THEN <<"{", "endpoint", r.endpoint, "status", r.status, "attempts", r.attempts, "}">>
  ELSE <<"{", "endpoint", r.endpoint, "status", r.status, "error", r.error, "}">>

Stringify(res) == <<"[">> \o [k \in 1..Len(res) |-> StringifyReport(res[k])] \o <<"]">>

\* Where control next enters the body of the while loop, from the while
\* condition of target i with the locals r and s: the target, and the
\* locals there; idx = n + 1 when the for loop ends first
RECURSIVE WhileFrom(_, _, _, _, _)
WhileFrom(i, r, s, n, m) ==
  IF i > n THEN [idx |-> n + 1, retries |-> r, success |-> s]
  ELSE IF LoopCond(r, m, s) THEN [idx |-> i, retries |-> r, success |-> s]
  ELSE WhileFrom(i + 1, InitialRetries(r), FALSE, n, m)

\* the catch of run(): core.setFailed, and run() is over
Catch(msg) ==
  /\ failed' = Append(failed, FailedMessage(msg))
  /\ pc' = "done"

\* Control reaches w (a value of WhileFrom): either the body of the while
\* loop, up to `await checkEndpoint(...)`, or the outputs after the for loop
Proceed(w, eps, m, lg, pr) ==
  /\ idx' = w.idx
  /\ retries' = w.retries
  /\ success' = w.success
  /\ IF w.idx <= Len(eps)
     THEN /\ infoLog' = Append(lg, <<"Checking endpoint ", eps[w.idx], " (Attempt ",
                                     w.retries + 1, "/", m, ")">>)
          /\ request' = [url |-> Trim(eps[w.idx]), state |-> "open", statusCode |-> 0,
                          destroyed |-> FALSE]
          /\ promise' = [NoPromise EXCEPT !.state = "pending"]
          /\ probes' = [pr EXCEPT ![w.idx] = @ + 1]
          /\ pc' = "awaitProbe"
          /\ UNCHANGED outputs
     ELSE /\ \E t \in Timestamps :
               outputs' = outputs \o <<(<<"status", <<"success">> >>),
                                       (<<"timestamp", t>>),
                                       (<<"results", Stringify(results')>>)>>
          /\ infoLog' = lg
          /\ probes' = pr
          /\ pc' = "done"
          /\ UNCHANGED <<request, promise>>

\* run() from its first line to the first await, or to its end
Run ==
  /\ pc = "start"
  /\ LET env == GetInput(<<"environment">>, inputs.environment, TRUE)
         eps == GetInput(<<"endpoints">>, inputs.endpoints, TRUE)
         list == Split(eps.val)
         m == OrDefault(ParseInt(GetInput(<<"max-retries">>, inputs.maxRetries, FALSE).val),
                        DefaultMaxRetries)
         d == OrDefault(ParseInt(GetInput(<<"retry-delay">>, inputs.retryDelay, FALSE).val),
                        DefaultRetryDelay)
         zero == [k \in 1..Len(list) |-> 0]
     IN IF env.threw \/ eps.threw
        THEN /\ Catch(IF env.threw THEN env.message ELSE eps.message)
             /\ UNCHANGED <<endpoints, maxRetries, retryDelay, results, idx, retries,
                            success, request, promise, infoLog, probes, rejects,
                            fulfills, sleeps, lastError, outputs>>
        ELSE /\ endpoints' = list
             /\ maxRetries' = m
             /\ retryDelay' = d
             /\ results' = <<>>
             /\ rejects' = zero
             /\ fulfills' = zero
             /\ sleeps' = zero
             /\ lastError' = NoError
             /\ Proceed(WhileFrom(1, InitialRetries(retries), FALSE, Len(list), m), list, m,
                        <<(<<"Starting deployment check for ", env.val, " environment">>),
                          (<<"Checking endpoints: ", Join(list, <<",", " ">>)>>)>>,
                        zero)
             /\ UNCHANGED failed
  /\ UNCHANGED <<inputs, timer, sh>>

\* run() resumes after `await checkEndpoint(...)`: the rest of the try block,
\* or the catch block, up to the next await or the end of run()
ResumeAfterProbe ==
  /\ pc = "awaitProbe"
  /\ Awaited(promise)
  /\ IF promise.state # "rejected"
     THEN /\ results' = Push(results, HealthyReport(endpoints[idx], retries))
          /\ Proceed(WhileFrom(idx, retries, TRUE, Len(endpoints), maxRetries),
                     endpoints, maxRetries,
                     Append(infoLog, <<"Endpoint ", endpoints[idx], " is healthy">>),
                     probes)
          /\ UNCHANGED <<timer, sleeps, failed>>
     ELSE /\ retries' = NextRetries(retries)
          /\ IF Exhausted(retries', maxRetries)
             THEN /\ results' = Push(results, UnhealthyReport(endpoints[idx], promise.reason))
                  /\ Catch(ExhaustedMessage(endpoints[idx], maxRetries, promise.reason))
                  /\ UNCHANGED <<timer, sleeps, infoLog>>
             ELSE /\ infoLog' = Append(infoLog, <<"Attempt ", retries', "/", maxRetries,
                                                  " failed, waiting ", retryDelay,
                                                  " seconds before retry...">>)
                  /\ timer' = [armed |-> TRUE, ms |-> RetryDelayMs(retryDelay)]
                  /\ sleeps' = [sleeps EXCEPT ![idx] = @ + 1]
                  /\ pc' = "awaitSleep"
                  /\ UNCHANGED <<results, failed>>
          /\ UNCHANGED <<idx, success, request, promise, probes, outputs>>
  /\ UNCHANGED <<inputs, endpoints, maxRetries, retryDelay, rejects, fulfills, lastError, sh>>

\* the retry delay's timer fires and run() resumes at the while condition
ResumeAfterSleep ==
  /\ pc = "awaitSleep"
  /\ timer.armed
  /\ timer' = [timer EXCEPT !.armed = FALSE]
  /\ UNCHANGED <<inputs, endpoints, maxRetries, retryDelay, results, failed,
                 rejects, fulfills, sleeps, lastError, sh>>
  /\ Proceed(WhileFrom(idx, retries, success, Len(endpoints), maxRetries),
             endpoints, maxRetries, infoLog, probes)

Next ==
  \/ Run
  \/ \E s \in StatusCodes, body \in Bodies : ResponseEnd(s, body)
  \/ \E msg \in NetworkErrors : RequestError(msg)
  \/ RequestTimeout
  \/ ResumeAfterProbe
  \/ ResumeAfterSleep

Spec == Init /\ [][Next]_vars

\* some event of the request in flight occurs
ProbeSettles ==
  \/ \E s \in StatusCodes, body \in Bodies : ResponseEnd(s, body)
  \/ \E msg \in NetworkErrors : RequestError(msg)
  \/ RequestTimeout

\* the event loop runs what is ready: run() starts and resumes once the
\* promise it awaits has settled; every request meets its response, an
\* error or the socket timeout; every timer fires
LiveSpec ==
  /\ Spec
  /\ WF_vars(Run)
  /\ WF_vars(ProbeSettles)
  /\ WF_vars(ResumeAfterProbe)
  /\ WF_vars(ResumeAfterSleep)

TypeOK ==
  /\ pc \in {"start", "awaitProbe", "awaitSleep", "done"}
  /\ Len(results) <= Len(endpoints)

\* ------------------------------------------------------------ vocabulary
Targets == DOMAIN endpoints

Reported == 1..Len(results)

Succeeded == outputs # <<>>

Failed == failed # <<>>

\* the run read its inputs and entered the loop
Started == pc # "start" /\ endpoints # <<>>

\* the continuation of every settled probe of target i has run
Handled(i) == i < idx \/ pc \in {"awaitSleep", "done"}

\* ------------------------------------------------------------------ claims

\* C1 (as stated): when the run is over the results hold exactly one report
\* per requested endpoint, in the order of the input list, whatever the
\* probes did (here for a positive maxRetries, as the contract of the
\* verifier has it).
C1_OneReportPerTarget ==
  (pc = "done" /\ Started /\ maxRetries >= 1) =>
    /\ Len(results) = Len(endpoints)
    /\ \A k \in Reported : results[k].endpoint = endpoints[k]

\* C1 (amended): the reports are always one per endpoint for a prefix of the
\* input list, in input order; while target idx is being probed the prefix
\* is the idx - 1 targets before it; a run that fails at target idx ends with
\* idx reports; a run that reports success after probing every target ends
\* with all N.
C1_ReportsArePrefixInOrder ==
  Started =>
    /\ Len(results) <= Len(endpoints)
    /\ \A k \in Reported : results[k].endpoint = endpoints[k]
    /\ pc \in {"awaitProbe", "awaitSleep"} => Len(results) = idx - 1
    /\ (pc = "done" /\ Failed) => Len(results) = idx
    /\ (pc = "done" /\ Succeeded /\ \A i \in Targets : probes[i] >= 1) =>
         Len(results) = Len(endpoints)

C1_Witness ==
  /\ pc = "done"
  /\ Succeeded
  /\ Len(results) = 2
  /\ results[1].endpoint # results[2].endpoint

\* C2: a target whose probes failed k-1 times and then succeeded has, once
\* run() has resumed, a 'healthy' report whose attempts is exactly k, and
\* k <= maxRetries.
C2_HealthyAttempts ==
  \A i \in Targets :
    (Handled(i) /\ probes[i] = rejects[i] + 1) =>
      /\ i \in Reported
      /\ results[i].status = "healthy"
      /\ results[i].attempts = rejects[i] + 1
      /\ results[i].attempts <= maxRetries

C2_Witness ==
  \E i \in Reported :
    /\ results[i].status = "healthy"
    /\ rejects[i] = 2
    /\ results[i].attempts = 3

\* C3: once a target's probes have failed maxRetries times the run never
\* reports status 'success', and when run() is over that target's report is
\* 'unhealthy' and the action is marked failed.
C3_ExhaustedFails ==
  \A i \in Targets :
    rejects[i] = maxRetries =>
      /\ ~Succeeded
      /\ pc \in {"awaitProbe", "done"}
      /\ pc = "done" =>
           /\ i \in Reported
           /\ results[i].status = "unhealthy"
           /\ Failed

C3_Witness ==
  /\ pc = "done"
  /\ Len(endpoints) = 2
  /\ rejects[2] = maxRetries
  /\ results[2].status = "unhealthy"
  /\ Failed

\* C4 (as stated): when the retry-delay input is 0, the delay started after
\* a failed attempt is 0 milliseconds.
C4_ZeroDelay ==
  (timer.armed /\ ParseInt(Trim(inputs.retryDelay)) = [nan |-> FALSE, val |-> 0]) =>
    timer.ms = 0

\* C5 (as stated): when a run that read its inputs is over, status='success'
\* was output exactly when every requested endpoint has a 'healthy' report
\* and exactly when no target exhausted its budget, the action is marked
\* failed exactly when some target exhausted its budget, and exactly one of
\* the two happened.
C5_SuccessIffAllHealthy ==
  (pc = "done" /\ Started) =>
    LET allHealthy == /\ Len(results) = Len(endpoints)
                      /\ \A k \in Reported : results[k].status = "healthy"
        someExhausted == \E i \in Targets : rejects[i] = maxRetries
    IN /\ Succeeded <=> allHealthy
       /\ Succeeded <=> ~someExhausted
       /\ Failed <=> someExhausted
       /\ Succeeded <=> ~Failed

\* C6 (as stated): the probes issued against a target, and the attempts
\* counter, never exceed the configured maxRetries.
C6_ProbesWithinBudget ==
  Started =>
    /\ \A i \in Targets : probes[i] <= maxRetries
    /\ retries <= maxRetries

\* C7 (as stated): with maxRetries = 1, when the run is over each target was
\* probed exactly once and no retry delay was started.
C7_EachProbedOnce ==
  (pc = "done" /\ Started /\ maxRetries = 1) =>
    \A i \in Targets : probes[i] = 1 /\ sleeps[i] = 0

\* C7 (amended): with maxRetries = 1 no retry delay is ever started and no
\* target is probed twice: every target up to the one the loop is at was
\* probed exactly once, every target after it not at all, so every target
\* of a run that reports success was probed exactly once.
C7_AtMostOnceNoSleep ==
  (Started /\ maxRetries = 1) =>
    /\ ~timer.armed
    /\ pc # "awaitSleep"
    /\ \A i \in Targets :
         /\ sleeps[i] = 0
         /\ i <= idx => probes[i] = 1
         /\ i > idx => probes[i] = 0

C7_Witness ==
  /\ pc = "done"
  /\ maxRetries = 1
  /\ Failed
  /\ Len(endpoints) = 2
  /\ probes = <<1, 0>>
  /\ rejects = <<1, 0>>

\* C8: an 'unhealthy' report carries the message of the latest failed probe,
\* which is a probe of that target, and so does the failure of the run; when
\* the final attempt ended with a response, that is its "HTTP Status" text.
C8_LastErrorRecorded ==
  \A k \in Reported :
    results[k].status = "unhealthy" =>
      /\ lastError.target = k
      /\ results[k].error = lastError.message
      /\ failed = <<(<<"Deployment check failed: ",
                      <<"Failed to verify endpoint ", endpoints[k], " after ",
                        maxRetries, " attempts: ", lastError.message>> >>)>>
      /\ request.state = "ended" =>
           results[k].error = <<"HTTP Status: ", request.statusCode>>

C8_Witness ==
  \E k \in Reported :
    /\ results[k].status = "unhealthy"
    /\ rejects[k] >= 2
    /\ results[k].error = <<"HTTP Status: ", 500>>

\* C9: the attempts counter counts the failed probes of the current target
\* only: the j-th probe of a target is issued with the counter at j - 1,
\* whatever earlier targets spent, and a target is given up only after
\* maxRetries probes of its own.
C9_BudgetPerTarget ==
  /\ pc = "awaitProbe" => probes[idx] = retries + 1
  /\ pc = "awaitSleep" => probes[idx] = retries /\ retries < maxRetries
  /\ \A k \in Reported :
       results[k].status = "unhealthy" => probes[k] = maxRetries

C9_Witness ==
  /\ Len(results) = 2
  /\ rejects[1] >= 1
  /\ results[2].status = "unhealthy"
  /\ maxRetries >= 2
  /\ probes[2] = maxRetries

\* C10: a settled probe succeeded exactly when its response ended with a
\* status s, 200 <= s < 300; every other status, an error and a timeout all
\* failed it, and each failed probe, of whichever kind, costs one attempt:
\* the counter is the number of failed probes of the target that run() has
\* handled, and the delay follows unless the budget is spent.
C10_Classification ==
  /\ request.state \in {"ended", "errored", "destroyed"} =>
       /\ promise.state \in {"fulfilled", "rejected"}
       /\ promise.state = "fulfilled" <=>
            /\ request.state = "ended"
            /\ request.statusCode >= 200
            /\ request.statusCode < 300
  /\ pc = "awaitSleep" => retries = rejects[idx]
  /\ pc = "awaitProbe" =>
       retries = rejects[idx] - (IF promise.state = "rejected" THEN 1 ELSE 0)
  /\ (pc = "done" /\ Failed /\ Started) => retries = rejects[idx]

C10_Witness ==
  /\ pc = "awaitSleep"
  /\ request.state = "destroyed"
  /\ promise.reason = <<"Request timed out">>
  /\ retries = 2

\* C11: a probe whose failure is the timeout has had its request destroyed,
\* and a destroyed request's probe stays rejected with the timeout message:
\* the 'error' the destroyed request emits later changes neither the outcome
\* nor the number of outcomes, which is never more than one per probe.
C11_TimeoutDestroysSettlesOnce ==
  /\ (promise.state = "rejected" /\ promise.reason = <<"Request timed out">>) =>
       request.destroyed
  /\ request.destroyed =>
       /\ request.state \in {"destroyed", "errored"}
       /\ promise.state = "rejected"
       /\ promise.reason = <<"Request timed out">>
       /\ lastError = [target |-> idx, message |-> <<"Request timed out">>]
  /\ \A i \in Targets : rejects[i] + fulfills[i] <= probes[i]

C11_Witness ==
  /\ request.destroyed
  /\ request.state = "errored"
  /\ pc = "awaitSleep"
  /\ retries = 1
  /\ rejects[idx] = 1

\* probes issued and not yet settled
RECURSIVE SumTo(_, _)
SumTo(f, n) == IF n = 0 THEN 0 ELSE f[n] + SumTo(f, n - 1)

InFlight == SumTo([i \in Targets |-> probes[i] - rejects[i] - fulfills[i]], Len(endpoints))

\* C12: at most one probe is in flight, and it is the current request; the
\* targets probed so far are the first idx of the list; a target is probed
\* only after every target before it has reached its terminal status (a
\* probe of it succeeded and it is reported).
C12_Sequential ==
  Started =>
    /\ InFlight \in {0, 1}
    /\ InFlight = 1 <=> request.state = "open"
    /\ request.state = "open" => pc = "awaitProbe"
    /\ \A j \in Targets :
         probes[j] >= 1 =>
           /\ j <= idx
           /\ \A i \in 1..(j - 1) :
                /\ fulfills[i] = 1
                /\ i \in Reported
                /\ results[i].status = "healthy"

C12_Witness ==
  /\ Len(endpoints) = 2
  /\ idx = 2
  /\ request.state = "open"
  /\ rejects[1] >= 1
  /\ fulfills[1] = 1

\* C13: a target has at most one successful probe and it is its last probe:
\* no probe and no retry delay of that target follows it, and the next
\* target's first probe is issued with no delay started for it.
C13_SuccessIsFinal ==
  /\ pc = "awaitProbe" => ~timer.armed
  /\ \A i \in Targets :
       /\ fulfills[i] <= 1
       /\ fulfills[i] = 1 =>
            /\ probes[i] = rejects[i] + 1
            /\ sleeps[i] = rejects[i]
       /\ (probes[i] = 1 /\ rejects[i] = 0) => sleeps[i] = 0

C13_Witness ==
  /\ Len(endpoints) = 2
  /\ idx = 2
  /\ fulfills[1] = 1
  /\ sleeps[1] = 1
  /\ probes[2] = 1
  /\ sleeps[2] = 0

\* failed probes of target i whose catch block has run
HandledRejects(i) ==
  rejects[i] - (IF i = idx /\ pc = "awaitProbe" /\ promise.state = "rejected" THEN 1 ELSE 0)

\* C14 (as stated): when the run is over, for every target the number of
\* delays is the number of its probes minus one (here for a positive
\* maxRetries).
C14_DelaysAreProbesMinusOne ==
  (pc = "done" /\ Started /\ maxRetries >= 1) =>
    \A i \in Targets : sleeps[i] = probes[i] - 1

\* C14 (amended): one delay is started after each failed attempt that leaves
\* the counter below maxRetries and none after the exhausting one; so for
\* every target that was probed, once its last delay is over, the number of
\* delays is the number of its probes minus one, and a target that was never
\* probed has no delay.
C14_OneDelayPerRetry ==
  Started =>
    \A i \in Targets :
      /\ sleeps[i] = IF HandledRejects(i) = maxRetries
                     THEN maxRetries - 1 ELSE HandledRejects(i)
      /\ probes[i] = 0 => sleeps[i] = 0
      /\ (probes[i] >= 1 /\ ~(i = idx /\ pc = "awaitSleep")) => sleeps[i] = probes[i] - 1
      /\ (i = idx /\ pc = "awaitSleep") => sleeps[i] = probes[i]

C14_Witness ==
  /\ pc = "done"
  /\ Failed
  /\ probes = <<2, 2>>
  /\ sleeps = <<1, 1>>

TotalProbes == SumTo(probes, Len(endpoints))

\* C15: when every probe and every delay completes, run() reaches its end
\* with exactly one of the two outcomes, and for a positive maxRetries never
\* more than N * maxRetries probes have been issued.
C15_Terminates ==
  /\ <>(pc = "done" /\ (Succeeded # Failed))
  /\ []((Started /\ maxRetries >= 1) => TotalProbes <= Len(endpoints) * maxRetries)

C15_Witness ==
  /\ pc = "done"
  /\ Len(endpoints) = 2
  /\ maxRetries = 2
  /\ TotalProbes = 4

\* C16: once a target's probes have failed maxRetries times, no target
\* after it is ever probed, no delay follows its last failed probe, and
\* run() is either about to handle that failure or over and marked failed.
C16_FailFast ==
  \A i \in Targets :
    rejects[i] = maxRetries =>
      /\ idx = i
      /\ \A j \in Targets : j > i => probes[j] = 0 /\ sleeps[j] = 0
      /\ probes[i] = maxRetries
      /\ sleeps[i] = maxRetries - 1
      /\ ~timer.armed
      /\ pc \in {"awaitProbe", "done"}
      /\ pc = "done" => Failed /\ Len(results) = i

C16_Witness ==
  /\ pc = "done"
  /\ Len(endpoints) = 2
  /\ maxRetries = 2
  /\ rejects[1] = 2
  /\ probes = <<2, 0>>
  /\ sleeps = <<1, 0>>

\* C17 (as stated): whatever the max-retries input is, a run that reports
\* status 'success' has probed every requested endpoint at least once and
\* holds a 'healthy' report for each.
C17_SuccessMeansAllProbed ==
  Succeeded =>
    /\ Len(results) = Len(endpoints)
    /\ \A i \in Targets :
         /\ probes[i] >= 1
         /\ results[i].status = "healthy"

\* the names of the outputs written, in order
OutputNames == [k \in 1..Len(outputs) |-> outputs[k][1]]

\* C18: the outputs are either none or 'status', 'timestamp' and 'results'
\* together, written when run() ends with no target having exhausted its
\* budget; a failed run writes no output at all, its reports, the
\* 'unhealthy' one included, stay in run(), and the one thing it emits is
\* the failure message.
C18_OutputsOnlyOnSuccess ==
  /\ OutputNames \in {<<>>, <<"status", "timestamp", "results">>}
  /\ Succeeded =>
       /\ pc = "done"
       /\ ~Failed
       /\ \A i \in Targets : rejects[i] # maxRetries
       /\ outputs[1][2] = <<"success">>
       /\ outputs[3][2] = Stringify(results)
  /\ Failed =>
       /\ pc = "done"
       /\ outputs = <<>>
       /\ Len(failed) = 1
  /\ (\E k \in Reported : results[k].status = "unhealthy") => Failed /\ outputs = <<>>

C18_Witness ==
  /\ pc = "done"
  /\ Failed
  /\ outputs = <<>>
  /\ Len(results) = 2
  /\ results[1].status = "healthy"
  /\ results[2].status = "unhealthy"

\* ------------------------------------------------------- the shell scripts
\* deploy.sh and build-all.sh run under `set -e`. A function of a script is
\* a list of items: a print, a plain command (its failure ends the script
\* under `set -e`), and the three `if` forms the scripts use. Texts and
\* commands are tuples of their fixed and expanded parts.
Status(text) == [kind |-> "print", level |-> "status", text |-> text]

Command(cmd) == [kind |-> "cmd", cmd |-> cmd]

RECURSIVE Concat(_)
Concat(seqs) == IF seqs = <<>> THEN <<>> ELSE Head(seqs) \o Concat(Tail(seqs))

\* the fields of s between the ':' characters, as `cut -d:` sees them
RECURSIVE FieldsFrom(_, _)
FieldsFrom(s, cur) ==
  IF s = <<>> THEN <<cur>>
  ELSE IF Head(s) = ":" THEN <<cur>> \o FieldsFrom(Tail(s), <<>>)
  ELSE FieldsFrom(Tail(s), Append(cur, Head(s)))

\* `echo $service | cut -d: -f<f>`
Cut(s, f) == FieldsFrom(s, <<>>)[f]

\* `set -e` of deploy.sh
DeployErrExit == TRUE

\* variant: build-all.sh without `set -e`
BuildErrExitOff == FALSE

\* `set -e` of build-all.sh
BuildErrExit == TRUE

\* ---- deploy.sh
ServiceManifests ==
  <<"backend/auth-service.yaml", "backend/scraper-service.yaml",
    "backend/analysis-service.yaml", "backend/notification-service.yaml",
    "frontend/webapp.yaml", "ingress.yaml">>

Deployments ==
  <<"auth-service", "scraper-service", "analysis-service", "notification-service", "webapp">>

HealthServices ==
  <<(<<"auth-service", ":", "8000">>), (<<"scraper-service", ":", "8001">>),
    (<<"analysis-service", ":", "8002">>), (<<"notification-service", ":", "8003">>)>>

Apply(path) == Command(<<"kubectl apply -f", path>>)

HealthCheck(service) ==
  LET name == Cut(service, 1)
      port == Cut(service, 2)
  IN [kind |-> "probe",
      cmd |-> <<"kubectl exec -it -n jse-stock-platform", <<"deploy/">> \o name,
                "-- curl -s", <<"http://localhost:">> \o port \o <<"/health">>,
                "| grep -q healthy">>,
      okText |-> name \o <<" is healthy">>,
      failText |-> name \o <<" health check failed">>]

\* variant: the manifests applied before the cluster is checked
DeployOrderApplyFirst ==
  <<"apply_configs", "check_kubernetes", "create_namespace",
    "wait_for_deployments", "verify_health">>

\* main of deploy.sh: the functions it calls, in order
DeployOrder ==
  <<"check_kubernetes", "create_namespace", "apply_configs",
    "wait_for_deployments", "verify_health">>

DeployBody(fn) ==
  CASE fn = "check_kubernetes" ->
         <<Status(<<"Checking Kubernetes connection...">>),
           [kind |-> "guard", cmd |-> <<"kubectl get nodes">>,
            text |-> <<"Unable to connect to Kubernetes cluster. Please check your kubeconfig.">>]>>
    [] fn = "create_namespace" ->
         <<Status(<<"Creating namespace...">>),
           [kind |-> "unless", cmd |-> <<"kubectl get namespace jse-stock-platform">>,
            alt |-> <<"kubectl create namespace jse-stock-platform">>,
            text |-> <<"Namespace already exists. Skipping...">>]>>
    [] fn = "apply_configs" ->
         <<Status(<<"Applying Kubernetes configurations...">>),
           Apply(<<"k8s/database.yaml">>)>>
         \o Concat([k \in 1..Len(ServiceManifests) |->
                     <<Status(<<"Applying ", ServiceManifests[k], "...">>),
                       Apply(<<"k8s/", ServiceManifests[k]>>)>>])
    [] fn = "wait_for_deployments" ->
         <<Status(<<"Waiting for deployments to be ready...">>)>>
         \o [k \in 1..Len(Deployments) |->
              Command(<<"kubectl rollout status", <<"deployment/", Deployments[k]>>,
                        "-n jse-stock-platform">>)]
    [] fn = "verify_health" ->
         <<Status(<<"Verifying service health...">>)>>
         \o [k \in 1..Len(HealthServices) |-> HealthCheck(HealthServices[k])]

\* ---- build-all.sh
PyServices ==
  <<"auth-service", "scraper-service", "analysis-service", "notification-service">>

Images == PyServices \o <<"webapp">>

In(dir, cmds) ==
  <<Command(<<"cd", dir>>)>> \o [k \in 1..Len(cmds) |-> Command(cmds[k])]
  \o <<Command(<<"cd", "../../">>)>>

\* main of build-all.sh: the functions it calls before the push is decided
BuildOrder == <<"check_code_quality", "run_tests", "build_images", "tag_images">>

\* `[ "$1" == "--push" ] || [ -n "$CI" ]`
ShouldPush(args, ci) == (args # <<>> /\ args[1] = "--push") \/ ci # ""

BuildBody(fn) ==
  CASE fn = "check_code_quality" ->
         <<Status(<<"Checking code quality...">>)>>
         \o Concat([k \in 1..Len(PyServices) |->
                     <<Status(<<"Checking ", PyServices[k], "...">>)>>
                     \o In(<<"services/", PyServices[k]>>,
                           <<(<<"flake8 src/">>), (<<"black --check src/">>),
                             (<<"isort --check-only src/">>)>>)])
         \o <<Status(<<"Checking frontend...">>)>>
         \o In(<<"frontend/web-app">>, <<(<<"npm run lint">>), (<<"npm run prettier:check">>)>>)
    [] fn = "run_tests" ->
         <<Status(<<"Running tests...">>)>>
         \o Concat([k \in 1..Len(PyServices) |->
                     <<Status(<<"Testing ", PyServices[k], "...">>)>>
                     \o In(<<"services/", PyServices[k]>>, <<(<<"python -m pytest tests/">>)>>)])
         \o <<Status(<<"Testing frontend...">>)>>
         \o In(<<"frontend/web-app">>, <<(<<"npm run test">>)>>)
    [] fn = "build_images" ->
         <<Status(<<"Building Docker images...">>)>>
         \o Concat([k \in 1..Len(PyServices) |->
                     <<Status(<<"Building ", PyServices[k], "...">>),
                       Command(<<"docker build -t", <<"jse-stock-platform/", PyServices[k], ":latest">>,
                                 <<"./services/", PyServices[k]>> >>)>>])
         \o <<Status(<<"Building frontend webapp...">>),
              Command(<<"docker build -t", <<"jse-stock-platform/", "webapp", ":latest">>,
                        <<"./frontend/web-app">> >>)>>
    [] fn = "tag_images" ->
         <<Status(<<"Tagging images...">>), Command(<<"date +%Y%m%d-%H%M%S">>)>>
         \o [k \in 1..Len(Images) |->
              Command(<<"docker tag", <<"jse-stock-platform/", Images[k], ":latest">>,
                        <<"jse-stock-platform/", Images[k], ":", "${timestamp}">> >>)]
    [] fn = "push_images" ->
         <<Status(<<"Pushing images to registry...">>)>>
         \o [k \in 1..Len(Images) |->
              Command(<<"docker push", <<"jse-stock-platform/", Images[k], ":latest">> >>)]

\* ---- running a script
Printed(s, level, text) == [s EXCEPT !.out = Append(@, <<level, text>>)]

Ran(s, cmd, ok) == [s EXCEPT !.cmds = Append(@, [cmd |-> cmd, ok |-> ok])]

Exit(s, code) == [s EXCEPT !.fn = "exited", !.k = 0, !.status = code]

Enter(s, fn) == [s EXCEPT !.fn = fn, !.k = 1, !.entered = Append(@, fn)]

\* the function main calls after fn, or "main_tail" after the last one
AfterFn(order, fn) ==
  IF \E k \in 1..(Len(order) - 1) : order[k] = fn
  THEN order[(CHOOSE k \in 1..(Len(order) - 1) : order[k] = fn) + 1]
  ELSE "main_tail"

\* the item after item s.k of a function of n items, or the return to main
Advance(s, n, order) ==
  IF s.k < n THEN [s EXCEPT !.k = @ + 1]
  ELSE LET nxt == AfterFn(order, s.fn)
       IN IF nxt = "main_tail" THEN [s EXCEPT !.fn = nxt, !.k = 0] ELSE Enter(s, nxt)

\* One item of the current function is executed; ok and ok2 are the exit
\* statuses (0 or not) of the commands it runs.
StepItem(s, body, order, errexit, ok, ok2) ==
  LET it == body[s.k]
      n == Len(body)
  IN CASE it.kind = "print" -> Advance(Printed(s, it.level, it.text), n, order)
       [] it.kind = "cmd" ->
            IF ~ok /\ errexit THEN Exit(Ran(s, it.cmd, ok), 1)
            ELSE Advance(Ran(s, it.cmd, ok), n, order)
       [] it.kind = "guard" ->
            \* if ! cmd; then print_error ...; exit 1; fi
            IF ~ok THEN Exit(Printed(Ran(s, it.cmd, ok), "error", it.text), 1)
            ELSE Advance(Ran(s, it.cmd, ok), n, order)
       [] it.kind = "unless" ->
            \* if ! cmd; then alt; else print_status ...; fi
            IF ~ok
            THEN IF ~ok2 /\ errexit THEN Exit(Ran(Ran(s, it.cmd, ok), it.alt, ok2), 1)
                 ELSE Advance(Ran(Ran(s, it.cmd, ok), it.alt, ok2), n, order)
            ELSE Advance(Printed(Ran(s, it.cmd, ok), "status", it.text), n, order)
       [] it.kind = "probe" ->
            \* if cmd; then print_status ...; else print_warning ...; fi
            IF ok THEN Advance(Printed(Ran(s, it.cmd, ok), "status", it.okText), n, order)
            ELSE Advance(Printed(Ran(s, it.cmd, ok), "warning", it.failText), n, order)

actionVars == <<inputs, pc, endpoints, maxRetries, retryDelay, results, idx, retries,
                success, request, promise, timer, outputs, failed, infoLog,
                probes, rejects, fulfills, sleeps, lastError>>

\* the action of deployment-check is not part of a script's run
ActionIdle ==
  /\ inputs = [environment |-> <<>>, endpoints |-> <<>>, maxRetries |-> <<>>,
               retryDelay |-> <<>>]
  /\ pc = "start"
  /\ endpoints = <<>>
  /\ maxRetries = 0
  /\ retryDelay = 0
  /\ results = <<>>
  /\ idx = 0
  /\ retries = 0
  /\ success = FALSE
  /\ request = NoRequest
  /\ promise = NoPromise
  /\ timer = NoTimer
  /\ outputs = <<>>
  /\ failed = <<>>
  /\ infoLog = <<>>
  /\ probes = <<>>
  /\ rejects = <<>>
  /\ fulfills = <<>>
  /\ sleeps = <<>>
  /\ lastError = NoError

\* ---- deploy.sh
DeployInit ==
  /\ ActionIdle
  /\ sh = [NoScript EXCEPT !.script = "deploy", !.fn = "main"]

\* a function of deploy.sh executes its next item
DeployStep(fn, ok, ok2) ==
  /\ sh.script = "deploy"
  /\ sh.fn = fn
  /\ sh' = StepItem(sh, DeployBody(fn), DeployOrder, DeployErrExit, ok, ok2)
  /\ UNCHANGED actionVars

\* main, up to its first call
DeployMain ==
  /\ sh.script = "deploy"
  /\ sh.fn = "main"
  /\ sh' = Enter(Printed(sh, "status", <<"Starting deployment process...">>), DeployOrder[1])
  /\ UNCHANGED actionVars

\* main, after its last call
DeployMainTail ==
  /\ sh.script = "deploy"
  /\ sh.fn = "main_tail"
  /\ sh' = Exit(Printed(sh, "status", <<"Deployment completed successfully!">>), 0)
  /\ UNCHANGED actionVars

check_kubernetes == \E ok \in BOOLEAN : DeployStep("check_kubernetes", ok, TRUE)

create_namespace == \E ok, ok2 \in BOOLEAN : DeployStep("create_namespace", ok, ok2)

apply_configs == \E ok \in BOOLEAN : DeployStep("apply_configs", ok, TRUE)

wait_for_deployments == \E ok \in BOOLEAN : DeployStep("wait_for_deployments", ok, TRUE)

verify_health == \E ok \in BOOLEAN : DeployStep("verify_health", ok, TRUE)

DeployNext ==
  \/ DeployMain
  \/ check_kubernetes
  \/ create_namespace
  \/ apply_configs
  \/ wait_for_deployments
  \/ verify_health
  \/ DeployMainTail

DeploySpec == DeployInit /\ [][DeployNext]_vars

\* ---- build-all.sh
BuildArgs == {<<>>, <<"--push">>, <<"--no-cache">>, <<"--no-cache", "--push">>}

CiValues == {"", "true", "false"}

BuildInit ==
  /\ ActionIdle
  /\ \E args \in BuildArgs, ci \in CiValues :
       sh = [NoScript EXCEPT !.script = "build", !.fn = "main", !.args = args, !.ci = ci]

\* a function of build-all.sh executes its next item
BuildStep(fn, ok) ==
  /\ sh.script = "build"
  /\ sh.fn = fn
  /\ sh' = StepItem(sh, BuildBody(fn), BuildOrder, BuildErrExit, ok, TRUE)
  /\ UNCHANGED actionVars

\* main, up to its first call
BuildMain ==
  /\ sh.script = "build"
  /\ sh.fn = "main"
  /\ LET started == Printed(sh, "status", <<"Starting build process...">>)
         noted == IF sh.ci # ""
                  THEN Printed(started, "status", <<"Running in CI environment...">>)
                  ELSE started
     IN sh' = Enter(noted, BuildOrder[1])
  /\ UNCHANGED actionVars

BuildCompleted(s) == Exit(Printed(s, "status", <<"Build completed successfully!">>), 0)

\* main, after a call returned: after tag_images the push, if asked for;
\* after push_images, or with no push, the last line
BuildMainTail ==
  /\ sh.script = "build"
  /\ sh.fn = "main_tail"
  /\ sh' = IF ShouldPush(sh.args, sh.ci) /\ ~(\E k \in 1..Len(sh.entered) : sh.entered[k] = "push_images")
           THEN Enter(sh, "push_images")
           ELSE BuildCompleted(sh)
  /\ UNCHANGED actionVars

check_code_quality == \E ok \in BOOLEAN : BuildStep("check_code_quality", ok)

run_tests == \E ok \in BOOLEAN : BuildStep("run_tests", ok)

build_images == \E ok \in BOOLEAN : BuildStep("build_images", ok)

tag_images == \E ok \in BOOLEAN : BuildStep("tag_images", ok)

push_images == \E ok \in BOOLEAN : BuildStep("push_images", ok)

BuildNext ==
  \/ BuildMain
  \/ check_code_quality
  \/ run_tests
  \/ build_images
  \/ tag_images
  \/ push_images
  \/ BuildMainTail

BuildSpec == BuildInit /\ [][BuildNext]_vars

\* ------------------------------------------------- claims on the scripts
\* the positions in the commands run so far of those that start with word
Positions(word) == {k \in 1..Len(sh.cmds) : sh.cmds[k].cmd[1] = word}

HasEntered(fn) == \E k \in 1..Len(sh.entered) : sh.entered[k] = fn

\* C19: deploy.sh enters its steps in the order check_kubernetes,
\* create_namespace, apply_configs, wait_for_deployments, verify_health; a
\* manifest is applied only after `kubectl get nodes` succeeded, and
\* k8s/database.yaml before any service manifest; a failed health check
\* prints a warning and nothing else: once verify_health is entered the
\* script runs all four checks and ends with status 0 and the line
\* 'Deployment completed successfully!'.
C19_DeployOrder ==
  LET order == <<"check_kubernetes", "create_namespace", "apply_configs",
                 "wait_for_deployments", "verify_health">>
      applies == Positions("kubectl apply -f")
      checks == Positions("kubectl exec -it -n jse-stock-platform")
  IN /\ Len(sh.entered) <= Len(order)
     /\ \A k \in 1..Len(sh.entered) : sh.entered[k] = order[k]
     /\ applies # {} =>
          /\ sh.cmds[1] = [cmd |-> <<"kubectl get nodes">>, ok |-> TRUE]
          /\ \A k \in applies : k > 1
     /\ \A k \in applies :
          sh.cmds[k].cmd[2] # <<"k8s/database.yaml">> =>
            \E d \in applies : d < k /\ sh.cmds[d].cmd[2] = <<"k8s/database.yaml">>
     /\ \A k \in checks :
          ~sh.cmds[k].ok =>
            \E o \in 1..Len(sh.out) :
              sh.out[o] = <<"warning", Tail(sh.cmds[k].cmd[2]) \o <<" health check failed">> >>
     /\ (sh.fn = "exited" /\ HasEntered("verify_health")) =>
          /\ Cardinality(checks) = 4
          /\ sh.status = 0
          /\ sh.out[Len(sh.out)] = <<"status", <<"Deployment completed successfully!">> >>

C19_Witness ==
  /\ sh.fn = "exited"
  /\ sh.status = 0
  /\ \A k \in Positions("kubectl exec -it -n jse-stock-platform") : ~sh.cmds[k].ok
  /\ \E o \in 1..Len(sh.out) :
       sh.out[o] = <<"warning", <<"notification-service", " health check failed">> >>
  /\ sh.out[Len(sh.out)] = <<"status", <<"Deployment completed successfully!">> >>

\* C20: build-all.sh runs `docker push` only when its first argument is
\* --push or CI is not empty, and only after check_code_quality, run_tests,
\* build_images and tag_images were entered in that order and every one of
\* their 50 commands succeeded; a command that fails is the last command the
\* script runs, so nothing is pushed after a failure.
C20_PushOnlyAfterAll ==
  LET pushes == Positions("docker push")
  IN /\ pushes # {} =>
          /\ (sh.args # <<>> /\ sh.args[1] = "--push") \/ sh.ci # ""
          /\ sh.entered = <<"check_code_quality", "run_tests", "build_images",
                            "tag_images", "push_images">>
          /\ \A k \in pushes : k > 50
          /\ \A k \in 1..50 : sh.cmds[k].ok
          /\ Cardinality(Positions("docker build -t")) = 5
          /\ Cardinality(Positions("docker tag")) = 5
          /\ Cardinality(Positions("python -m pytest tests/")) = 4
          /\ Cardinality(Positions("flake8 src/")) = 4
     /\ \A k \in 1..Len(sh.cmds) :
          ~sh.cmds[k].ok =>
            /\ k = Len(sh.cmds)
            /\ sh.fn = "exited"
            /\ sh.status # 0

C20_Witness ==
  /\ sh.fn = "exited"
  /\ sh.status = 0
  /\ sh.args = <<>>
  /\ sh.ci = "false"
  /\ Cardinality(Positions("docker push")) = 5

====
